---------------------------- MODULE Spec2Model ----------------------------
(***************************************************************************)
(* Model of PnB_Excel_Processor/excelprocessor3.py: clean_excel, the       *)
(* owner-resolution cascade of process_cleaned_excel (majority vote,       *)
(* master lookup, roster), process_master_data_update,                     *)
(* process_accrual_mapping, and the Gradio handlers that drive them.       *)
(*                                                                         *)
(* A string is a sequence of one-character strings, so that str.strip(),   *)
(* str.upper() and Python's lexicographic order are computed, not assumed. *)
(* A DataFrame is a sequence of records (one record per row).              *)
(***************************************************************************)
EXTENDS Integers, Sequences, FiniteSets, TLC

VARIABLES
    \* process_cleaned_excel: position and local tables
    pc, df, master, filtered_dept, b_test, df_leaders_final, df_leaders_monthly,
    \* the Dataframe component's value, the leaders_final_data state, and
    \* the returns of process_master_data_update (latest and previous)
    df_edited, table, result, previous,
    \* the files of tempfile.gettempdir() that the handlers write by fixed
    \* name, and the calls in flight of each browser session
    files, sess,
    \* one session's Gradio components and states, and what has happened
    gui, hist,
    \* clean_excel on its own: the workbook given, what clean_excel returned
    \* for it, and what it returned for the cleaned table given back to it
    book, cleaned, again,
    \* process_accrual_mapping on its own: what it returned
    mapped

pipeVars == <<pc, df, master, filtered_dept, b_test, df_leaders_final,
              df_leaders_monthly>>
deriveVars == <<df_edited, table, result, previous>>
cleanVars == <<book, cleaned, again, mapped>>
appVars == <<files, sess, gui, hist, cleanVars>>

vars == <<pipeVars, deriveVars, appVars>>

\* Python's None.
None == [none |-> TRUE]

-----------------------------------------------------------------------------
(* Strings *)

\* pandas' missing value (NaN / None): not a string.
NaN == <<"NaN">>

\* The placeholder owner compared against at lines 104, 115, 127, 143.
SENTINEL == <<"U","n","s","p","e","c","i","f","i","e","d"," ",
              "U","n","s","p","e","c","i","f","i","e","d">>

\* Characters in code-point order (the part of ASCII the model uses).
Alphabet == <<" ", "%", "&", "-", ".",
              "0","1","2","3","4","5","6","7","8","9",
              "A","B","C","D","E","F","G","H","I","J","K","L","M",
              "N","O","P","Q","R","S","T","U","V","W","X","Y","Z", "_",
              "a","b","c","d","e","f","g","h","i","j","k","l","m",
              "n","o","p","q","r","s","t","u","v","w","x","y","z">>

Ord(c) == CHOOSE i \in 1..Len(Alphabet) : Alphabet[i] = c

\* Python's str < str: lexicographic by code point, a proper prefix first.
RECURSIVE StrLess(_, _)
StrLess(s, t) ==
    IF t = <<>> THEN FALSE
    ELSE IF s = <<>> THEN TRUE
    ELSE IF Ord(Head(s)) # Ord(Head(t)) THEN Ord(Head(s)) < Ord(Head(t))
    ELSE StrLess(Tail(s), Tail(t))

RECURSIVE LStrip(_)
LStrip(s) == IF s # <<>> /\ Head(s) = " " THEN LStrip(Tail(s)) ELSE s

RECURSIVE RStrip(_)
RStrip(s) ==
    IF s # <<>> /\ s[Len(s)] = " " THEN RStrip(SubSeq(s, 1, Len(s) - 1)) ELSE s

\* Series.str.strip(): NaN stays NaN.
Strip(s) == IF s = NaN THEN NaN ELSE LStrip(RStrip(s))

UpperChar(c) ==
    IF Ord(c) >= Ord("a") /\ Ord(c) <= Ord("z")
    THEN Alphabet[Ord(c) - Ord("a") + Ord("A")] ELSE c

\* Series.str.upper()
Upper(s) == IF s = NaN THEN NaN ELSE [i \in 1..Len(s) |-> UpperChar(s[i])]

\* .astype(str).str.strip().str.upper() of lines 87, 125, 153: astype(str)
\* turns a missing value into the text 'nan'.
NormPAG(s) == Upper(Strip(IF s = NaN THEN <<"n","a","n">> ELSE s))

-----------------------------------------------------------------------------
(* DataFrame helpers *)

\* The concatenation of F(row) over the rows of s, in order.
FlatMap(s, F(_)) ==
    LET f[i \in 0..Len(s)] == IF i = 0 THEN <<>> ELSE f[i - 1] \o F(s[i])
    IN  f[Len(s)]

Filter(s, P(_)) == SelectSeq(s, P)

\* Stable insertion of r into the sorted sequence s (after equal elements).
InsertSorted(s, r, Less(_, _)) ==
    LET before == {i \in 1..Len(s) : \A j \in 1..i : ~Less(r, s[j])}
        k      == Cardinality(before)
    IN  SubSeq(s, 1, k) \o <<r>> \o SubSeq(s, k + 1, Len(s))

\* A stable sort.
SortBy(s, Less(_, _)) ==
    LET f[i \in 0..Len(s)] ==
            IF i = 0 THEN <<>> ELSE InsertSorted(f[i - 1], s[i], Less)
    IN  f[Len(s)]

\* DataFrame.drop_duplicates(subset=..., keep='first'): Key projects the subset.
DropDuplicates(s, Key(_)) ==
    LET f[i \in 0..Len(s)] ==
            IF i = 0 THEN <<>>
            ELSE LET prev == f[i - 1]
                 IN  IF \E j \in 1..Len(prev) : Key(prev[j]) = Key(s[i])
                     THEN prev ELSE Append(prev, s[i])
    IN  f[Len(s)]

Range(s) == {s[i] : i \in 1..Len(s)}

-----------------------------------------------------------------------------
(* process_cleaned_excel, lines 78-87: department filter, PAG normalisation *)

\* The department kept by line 81.
DEPT == 25902

\* Lines 81-87 on the table read at line 78 (canonical column names).  Only
\* the PAG column is value-normalised; 'Member Supervisor' is left as read.
FilterDept(d) ==
    LET kept == Filter(d, LAMBDA r : r.dept = DEPT)
    IN  [i \in 1..Len(kept) |-> [kept[i] EXCEPT !.PAG = NormPAG(@)]]

-----------------------------------------------------------------------------
(* process_cleaned_excel, lines 90-120: majority vote *)

\* Line 90: the three key columns, sorted by Code.  sort_values' default
\* sort is not stable; the rest of the step reads selected_df only through
\* groupby (which counts) and a merge followed by drop_duplicates, so the
\* order among equal Codes does not reach the result.
selected_df(fd) ==
    SortBy([i \in 1..Len(fd) |->
               [MemberSupervisor |-> fd[i].MemberSupervisor,
                Code |-> fd[i].Code, PAG |-> fd[i].PAG]],
           LAMBDA a, b : a.Code < b.Code)

\* The order groupby gives its keys: ascending (Code, PAG, Member Supervisor).
GroupKeyLess(a, b) ==
    \/ a.Code < b.Code
    \/ a.Code = b.Code /\ StrLess(a.PAG, b.PAG)
    \/ a.Code = b.Code /\ a.PAG = b.PAG
       /\ StrLess(a.MemberSupervisor, b.MemberSupervisor)

\* groupby(..., sort=False): the group keys in order of first appearance.
grouped_df_gcc_unsorted(sel) ==
    LET present == Filter(sel, LAMBDA r : r.MemberSupervisor # NaN)
        keys    == DropDuplicates(present, LAMBDA r : r)
    IN  [i \in 1..Len(keys) |->
            [Code |-> keys[i].Code, PAG |-> keys[i].PAG,
             MemberSupervisor |-> keys[i].MemberSupervisor,
             Count |-> Cardinality({j \in 1..Len(present) : present[j] = keys[i]})]]

\* Lines 93-95: groupby(['Code','PAG','Member Supervisor']).size().  Every
\* row with non-missing keys is counted, the placeholder's rows included;
\* groupby drops rows with a missing key and sorts the group keys.
grouped_df_gcc(sel) ==
    LET present == Filter(sel, LAMBDA r : r.MemberSupervisor # NaN)
        keys    == SortBy(DropDuplicates(present, LAMBDA r : r), GroupKeyLess)
    IN  [i \in 1..Len(keys) |->
            [Code |-> keys[i].Code, PAG |-> keys[i].PAG,
             MemberSupervisor |-> keys[i].MemberSupervisor,
             Count |-> Cardinality({j \in 1..Len(present) : present[j] = keys[i]})]]

\* The sort order of line 100: Code and PAG ascending, Count descending.
CountOrderLess(a, b) ==
    \/ a.Code < b.Code
    \/ a.Code = b.Code /\ StrLess(a.PAG, b.PAG)
    \/ a.Code = b.Code /\ a.PAG = b.PAG /\ a.Count > b.Count

\* Lines 98-102: the first row of each (PAG, Code) after the (stable,
\* multi-key) sort, its owner renamed 'Member Supervisor_New'.
grouped_counts_sorted(g) ==
    LET first == DropDuplicates(SortBy(g, CountOrderLess),
                                LAMBDA r : <<r.PAG, r.Code>>)
    IN  [i \in 1..Len(first) |->
            [Code |-> first[i].Code, PAG |-> first[i].PAG,
             MemberSupervisor_New |-> first[i].MemberSupervisor,
             Count |-> first[i].Count]]

\* Line 104.
unspecified_df(sel) == Filter(sel, LAMBDA r : r.MemberSupervisor = SENTINEL)

\* Line 105: inner merge on (PAG, Code), then drop_duplicates.
joined_df(gcs, unsp) ==
    DropDuplicates(
        FlatMap(gcs, LAMBDA g :
            LET m == Filter(unsp, LAMBDA u : u.PAG = g.PAG /\ u.Code = g.Code)
            IN  [i \in 1..Len(m) |->
                    [Code |-> g.Code, PAG |-> g.PAG,
                     MemberSupervisor_New |-> g.MemberSupervisor_New,
                     Count |-> g.Count,
                     MemberSupervisor |-> m[i].MemberSupervisor]]),
        LAMBDA r : r)

\* Lines 107-112: left merge of the filtered table with joined_df on
\* (PAG, Code, Member Supervisor); an unmatched row gets a missing value.
df_unspecified_joined(fd, joined) ==
    FlatMap(fd, LAMBDA r :
        LET m == Filter(joined, LAMBDA j : /\ j.PAG = r.PAG /\ j.Code = r.Code
                                           /\ j.MemberSupervisor = r.MemberSupervisor)
        IN  IF m = <<>>
            THEN <<[row |-> r, MemberSupervisor_New |-> NaN]>>
            ELSE [i \in 1..Len(m) |->
                     [row |-> r, MemberSupervisor_New |-> m[i].MemberSupervisor_New]])

\* The vote with the winner written to every row of a group that holds a
\* placeholder row (the merge keyed on (PAG, Code) alone).
MajorityVote_AllRows(fd) ==
    LET sel == selected_df(fd)
        jn  == joined_df(grouped_counts_sorted(grouped_df_gcc(sel)),
                         unspecified_df(sel))
    IN  [i \in 1..Len(fd) |->
            LET m == Filter(jn, LAMBDA j : j.PAG = fd[i].PAG /\ j.Code = fd[i].Code)
            IN  IF m = <<>> THEN fd[i]
                ELSE [fd[i] EXCEPT !.MemberSupervisor = m[1].MemberSupervisor_New]]

\* Lines 114-120: np.where on the placeholder, then the helper columns dropped.
MajorityVote(fd) ==
    LET sel == selected_df(fd)
        j   == df_unspecified_joined(
                   fd, joined_df(grouped_counts_sorted(grouped_df_gcc(sel)),
                                 unspecified_df(sel)))
    IN  [i \in 1..Len(j) |->
            IF j[i].row.MemberSupervisor = SENTINEL
            THEN [j[i].row EXCEPT !.MemberSupervisor = j[i].MemberSupervisor_New]
            ELSE j[i].row]

-----------------------------------------------------------------------------
(* process_cleaned_excel, lines 123-148: master lookup *)

\* Lines 123-125 on the master sheet as read: every text column stripped,
\* the PAG column stripped and upper-cased.
df_leaders(m) ==
    [i \in 1..Len(m) |->
        [PAG |-> NormPAG(Strip(m[i].PAG)),
         MemberSupervisor |-> Strip(m[i].MemberSupervisor),
         DIRECTOR |-> Strip(m[i].DIRECTOR)]]

\* Line 127.
b_test1(bt) == Filter(bt, LAMBDA r : r.MemberSupervisor = SENTINEL)

\* drop_duplicates(subset=['PAG'], keep='last').
df_accural_manager_code_last(leaders) ==
    LET n   == Len(leaders)
        rev == [i \in 1..n |-> leaders[n + 1 - i]]
        d   == DropDuplicates(rev, LAMBDA r : r.PAG)
    IN  [i \in 1..Len(d) |-> d[Len(d) + 1 - i]]

\* Line 129: the first master row of each PAG.
df_accural_manager_code(leaders) == DropDuplicates(leaders, LAMBDA r : r.PAG)

\* Lines 131-133: inner merge of the rows still carrying the placeholder
\* with the de-duplicated master on PAG; one row per placeholder row (not
\* de-duplicated), columns PAG, Code, 'Member Supervisor_y'.
df_leaders_select(bt1, amc) ==
    FlatMap(bt1, LAMBDA r :
        LET m == Filter(amc, LAMBDA a : a.PAG = r.PAG)
        IN  [i \in 1..Len(m) |->
                [PAG |-> r.PAG, Code |-> r.Code,
                 MemberSupervisor_y |-> m[i].MemberSupervisor]])

\* The lookup with the master's owner written to every row of a (PAG, Code)
\* that the merge matched.
MasterLookup_AllRows(bt, leaders) ==
    LET sel == df_leaders_select(b_test1(bt), df_accural_manager_code(leaders))
    IN  FlatMap(bt, LAMBDA r :
            LET m == Filter(sel, LAMBDA s : s.PAG = r.PAG /\ s.Code = r.Code)
            IN  IF m = <<>> THEN <<r>>
                ELSE [i \in 1..Len(m) |->
                         [r EXCEPT !.MemberSupervisor = m[i].MemberSupervisor_y]])

\* The lookup with the placeholder kept where the master has no row.
MasterLookup_KeepPlaceholder(bt, leaders) ==
    LET sel == df_leaders_select(b_test1(bt), df_accural_manager_code(leaders))
    IN  FlatMap(bt, LAMBDA r :
            LET m == Filter(sel, LAMBDA s : s.PAG = r.PAG /\ s.Code = r.Code)
                y == IF m = <<>> THEN <<SENTINEL>>
                     ELSE [i \in 1..Len(m) |-> m[i].MemberSupervisor_y]
            IN  [i \in 1..Len(y) |->
                    IF r.MemberSupervisor = SENTINEL
                    THEN [r EXCEPT !.MemberSupervisor = y[i]] ELSE r])

\* Lines 135-148: left merge of b_test with df_leaders_select on (PAG, Code)
\* (a row of b_test appears once per matching row of df_leaders_select),
\* np.where on the placeholder, 'Member Supervisor_y' dropped.
MasterLookup(bt, leaders) ==
    LET sel == df_leaders_select(b_test1(bt), df_accural_manager_code(leaders))
    IN  FlatMap(bt, LAMBDA r :
            LET m == Filter(sel, LAMBDA s : s.PAG = r.PAG /\ s.Code = r.Code)
                y == IF m = <<>> THEN <<NaN>>
                     ELSE [i \in 1..Len(m) |-> m[i].MemberSupervisor_y]
            IN  [i \in 1..Len(y) |->
                    IF r.MemberSupervisor = SENTINEL
                    THEN [r EXCEPT !.MemberSupervisor = y[i]] ELSE r])

-----------------------------------------------------------------------------
(* process_cleaned_excel, lines 150-172: the owner -> director roster *)

\* Whether line 166 flags the row: DIRECTOR missing or the empty string.
SortNull(r) == r.DIRECTOR = NaN \/ r.DIRECTOR = <<>>

\* Lines 151-153: the distinct (Member Supervisor, PAG) pairs, text columns
\* stripped, PAG normalised again.
df_leaders_LNB(final) ==
    LET pairs == DropDuplicates(
                     [i \in 1..Len(final) |->
                         [MemberSupervisor |-> final[i].MemberSupervisor,
                          PAG |-> final[i].PAG]],
                     LAMBDA r : r)
    IN  [i \in 1..Len(pairs) |->
            [MemberSupervisor |-> Strip(pairs[i].MemberSupervisor),
             PAG |-> NormPAG(Strip(pairs[i].PAG))]]

\* The roster without the sort of lines 166-170.
df_leaders_monthly_unsorted(final, leaders) ==
    DropDuplicates(
        FlatMap(df_leaders_LNB(final), LAMBDA r :
            LET m == Filter(leaders, LAMBDA l :
                         /\ l.PAG = r.PAG
                         /\ l.MemberSupervisor = r.MemberSupervisor)
            IN  IF m = <<>>
                THEN <<[MemberSupervisor |-> r.MemberSupervisor,
                        PAG |-> r.PAG, DIRECTOR |-> NaN]>>
                ELSE [i \in 1..Len(m) |->
                         [MemberSupervisor |-> r.MemberSupervisor,
                          PAG |-> r.PAG,
                          DIRECTOR |-> m[i].DIRECTOR]]),
        LAMBDA r : r)

\* Lines 158-170: left merge with the whole master on (PAG, Member
\* Supervisor), drop_duplicates, then the flagged rows first.  The sort is
\* on one boolean key, descending; the rows of each block keep their order
\* (numpy sorts short arrays by insertion).
df_leaders_monthly_of(final, leaders) ==
    LET merged == DropDuplicates(
                      FlatMap(df_leaders_LNB(final), LAMBDA r :
                          LET m == Filter(leaders, LAMBDA l :
                                       /\ l.PAG = r.PAG
                                       /\ l.MemberSupervisor = r.MemberSupervisor)
                          IN  IF m = <<>>
                              THEN <<[MemberSupervisor |-> r.MemberSupervisor,
                                      PAG |-> r.PAG, DIRECTOR |-> NaN]>>
                              ELSE [i \in 1..Len(m) |->
                                       [MemberSupervisor |-> r.MemberSupervisor,
                                        PAG |-> r.PAG,
                                        DIRECTOR |-> m[i].DIRECTOR]]),
                      LAMBDA r : r)
    IN  Filter(merged, SortNull) \o Filter(merged, LAMBDA r : ~SortNull(r))

-----------------------------------------------------------------------------
(* process_master_data_update, lines 184-222 *)

\* A DataFrame handed between handlers: its column names and its rows.
Frame(cols, rows) == [columns |-> cols, rows |-> rows]

ResolvedColumns ==
    {"Member Name & ID", "Loaning Department ID", "Code", "PAG", "Member Supervisor"}
RosterColumns == {"Member Supervisor", "PAG", "DIRECTOR"}

\* A cell written by to_excel and read back by read_excel: the empty string
\* comes back as a missing value.
RoundTripCell(v) == IF v = <<>> THEN NaN ELSE v

\* Lines 194-198: the edited table through Master_Data_Leaders_Monthly.xlsx.
RoundTrip(rows) ==
    [i \in 1..Len(rows) |->
        [MemberSupervisor |-> RoundTripCell(rows[i].MemberSupervisor),
         PAG |-> RoundTripCell(rows[i].PAG),
         DIRECTOR |-> RoundTripCell(rows[i].DIRECTOR)]]

\* Line 199.
df_manager_director(mapping) ==
    DropDuplicates([i \in 1..Len(mapping) |->
                       [PAG |-> mapping[i].PAG,
                        MemberSupervisor |-> mapping[i].MemberSupervisor,
                        DIRECTOR |-> mapping[i].DIRECTOR]],
                   LAMBDA r : r)

\* A row without idx (the index is no column: drop_duplicates ignores it).
Cells(r) == [f \in DOMAIN r \ {"idx"} |-> r[f]]

\* Lines 202-207: left merge on (PAG, Member Supervisor), drop_duplicates.
df_director_map(final, md) ==
    DropDuplicates(
        FlatMap(final, LAMBDA r :
            LET m == Filter(md, LAMBDA d : /\ d.PAG = r.PAG
                                           /\ d.MemberSupervisor = r.MemberSupervisor)
                dirs == IF m = <<>> THEN <<NaN>>
                        ELSE [i \in 1..Len(m) |-> m[i].DIRECTOR]
            IN  [i \in 1..Len(dirs) |->
                    [idx |-> r.idx, member |-> r.member, dept |-> r.dept,
                     Code |-> r.Code, PAG |-> r.PAG,
                     MemberSupervisor |-> r.MemberSupervisor,
                     DIRECTOR |-> dirs[i]]]),
        Cells)

\* Line 210.
df_director_master(dmap) ==
    DropDuplicates([i \in 1..Len(dmap) |->
                       [PAG |-> dmap[i].PAG,
                        MemberSupervisor |-> dmap[i].MemberSupervisor,
                        DIRECTOR |-> dmap[i].DIRECTOR]],
                   LAMBDA r : r)

\* What lines 190 and 222 return.
Failed == [master_data |-> None, lnb_mapped |-> None, df_director_map |-> None]

\* Lines 199-219 on the mapping read back at line 198 and df_leaders_final.
\* The three returns: the content of Master_Data_Leaders.xlsx, of
\* LnB_Mapped_Month.xlsx and the director map.  A missing df_leaders_final
\* makes pd.merge raise; a df_leaders_final that already has a DIRECTOR
\* column makes the merge name its columns DIRECTOR_x / DIRECTOR_y, and
\* line 210 raises KeyError; both end in the except of line 221.
DeriveFrom(mapping, final) ==
    IF final = None THEN Failed
    ELSE IF "DIRECTOR" \in final.columns THEN Failed
    ELSE LET dmap == df_director_map(final.rows, df_manager_director(mapping))
         IN  [master_data |-> Frame({"PAG", "Member Supervisor", "DIRECTOR"},
                                    df_director_master(dmap)),
              lnb_mapped |-> Frame(final.columns \cup {"DIRECTOR"}, dmap),
              df_director_map |-> Frame(final.columns \cup {"DIRECTOR"}, dmap)]

\* Line 189.
NothingEdited(edited) == edited = None \/ Len(edited.rows) = 0

\* process_master_data_update(df_edited, df_leaders_final) run on its own:
\* the mapping read at line 198 is the table written at line 195.
process_master_data_update(edited, final) ==
    IF NothingEdited(edited) THEN Failed
    ELSE DeriveFrom(RoundTrip(edited.rows), final)

\* The state of the variables a specification does not use.
CleanIdle == book = None /\ cleaned = None /\ again = None /\ mapped = None

AppIdle == files = None /\ sess = <<>> /\ gui = None /\ hist = None /\ CleanIdle

-----------------------------------------------------------------------------
(* Input universes *)

Al == <<"A","l">>
Bo == <<"B","o">>
Vi == <<"V","i">>
PaddedSentinel == <<" ">> \o SENTINEL \o <<" ">>

P1 == <<"P","1">>
P2 == <<"P","2">>
p1Raw == <<" ","p","1">>

M1 == <<"J","o"," ","7">>
M2 == <<"K","a"," ","8">>

D1 == <<"D","1">>
D2 == <<"D","2">>
D3 == <<"D","3">>

\* Rows of one table: at most MaxRows.
MaxRows == 3

SeqsUpTo(K, n) == UNION {[1..m -> K] : m \in 0..n}

\* A table as read: each row carries idx, its position in the table read
\* (pandas' index), which no operation of the pipeline compares.
WithIdx(raw) ==
    [i \in 1..Len(raw) |->
        [idx |-> i, member |-> raw[i].member, dept |-> raw[i].dept,
         Code |-> raw[i].Code, PAG |-> raw[i].PAG,
         MemberSupervisor |-> raw[i].MemberSupervisor]]

\* Row kinds of the majority-vote specification: two Codes, one PAG spelt
\* two ways, owners sorting before and after the placeholder, a missing
\* owner, a padded placeholder, a row of another department.
VoteRowKinds ==
    [member : {M1}, dept : {DEPT}, Code : {1, 2}, PAG : {P1},
     MemberSupervisor : {Al, Bo, SENTINEL, Vi}]
    \cup [member : {M1}, dept : {DEPT}, Code : {1}, PAG : {p1Raw},
          MemberSupervisor : {Al, SENTINEL, NaN, PaddedSentinel}]
    \cup [member : {M1}, dept : {DEPT + 1}, Code : {1}, PAG : {P1},
          MemberSupervisor : {Al}]

-----------------------------------------------------------------------------
(* Specification of the department filter and the majority vote *)

InitVote ==
    /\ pc = "read"
    /\ \E raw \in SeqsUpTo(VoteRowKinds, MaxRows) : df = WithIdx(raw)
    /\ master = <<>>
    /\ filtered_dept = <<>>
    /\ b_test = <<>>
    /\ df_leaders_final = <<>>
    /\ df_leaders_monthly = <<>>
    /\ df_edited = None /\ table = None /\ result = Failed /\ previous = Failed
    /\ AppIdle

\* Lines 78-87.
DoFilterDept ==
    /\ pc = "read"
    /\ filtered_dept' = FilterDept(df)
    /\ pc' = "filtered"
    /\ UNCHANGED <<df, master, b_test, df_leaders_final, df_leaders_monthly>>
    /\ UNCHANGED deriveVars
    /\ UNCHANGED appVars

\* Lines 90-120.
DoMajorityVote ==
    /\ pc = "filtered"
    /\ b_test' = MajorityVote(filtered_dept)
    /\ pc' = "voted"
    /\ UNCHANGED <<df, master, filtered_dept, df_leaders_final, df_leaders_monthly>>
    /\ UNCHANGED deriveVars
    /\ UNCHANGED appVars

NextVote == DoFilterDept \/ DoMajorityVote

SpecVote == InitVote /\ [][NextVote]_vars

-----------------------------------------------------------------------------
(* Vocabulary of the majority-vote properties *)

\* Positions of the filtered table in the (PAG, Code) group of row i.
GroupOf(fd, i) ==
    {j \in 1..Len(fd) : fd[j].PAG = fd[i].PAG /\ fd[j].Code = fd[i].Code}

\* How many rows of the group of row i carry the owner value v.
VoteCount(fd, i, v) ==
    Cardinality({j \in GroupOf(fd, i) : fd[j].MemberSupervisor = v})

\* The owner values counted in the group of row i (a missing owner is none).
CountedOwners(fd, i) ==
    {fd[j].MemberSupervisor : j \in GroupOf(fd, i)} \ {NaN}

\* The real owners of the group of row i: counted and not the placeholder.
RealOwners(fd, i) == CountedOwners(fd, i) \ {SENTINEL}

\* The values of S with the highest count in the group of row i.
Top(fd, i, S) ==
    {v \in S : \A w \in S : VoteCount(fd, i, v) >= VoteCount(fd, i, w)}

\* The value of T (non-empty) that sorts first.
LexMin(T) == CHOOSE v \in T : \A w \in T \ {v} : StrLess(v, w)

\* The owners that the rows of table t descending from input row k carry.
OwnersOf(t, k) == {t[j].MemberSupervisor : j \in {n \in 1..Len(t) : t[n].idx = k}}

\* C1: after the majority vote, every row that entered with the placeholder
\* and has a real-owner peer in its (PAG, Code) group carries a real owner
\* with the highest count among the real owners of the group; a placeholder
\* row without such a peer keeps the placeholder.
C1_SentinelNeverWins ==
    pc = "voted" =>
        \A i \in 1..Len(filtered_dept) :
            filtered_dept[i].MemberSupervisor = SENTINEL =>
                LET real == RealOwners(filtered_dept, i)
                IN  IF real # {}
                    THEN OwnersOf(b_test, filtered_dept[i].idx)
                             \subseteq Top(filtered_dept, i, real)
                         /\ OwnersOf(b_test, filtered_dept[i].idx) # {}
                    ELSE OwnersOf(b_test, filtered_dept[i].idx) = {SENTINEL}

C3_VoteKeepsRealOwners ==
    pc = "voted" =>
        \A i \in 1..Len(filtered_dept) :
            filtered_dept[i].MemberSupervisor # SENTINEL =>
                OwnersOf(b_test, filtered_dept[i].idx)
                    = {filtered_dept[i].MemberSupervisor}

\* A group where the vote acted (a placeholder row became a real owner) and
\* that holds a row of another real owner, which kept its owner.
C3_Witness ==
    /\ pc = "voted"
    /\ \E i, k \in 1..Len(filtered_dept) :
          /\ filtered_dept[i].MemberSupervisor = SENTINEL
          /\ k \in GroupOf(filtered_dept, i)
          /\ filtered_dept[k].MemberSupervisor \notin {SENTINEL, NaN}
          /\ OwnersOf(b_test, filtered_dept[i].idx) \cap {SENTINEL, NaN} = {}
          /\ filtered_dept[k].MemberSupervisor
                 \notin OwnersOf(b_test, filtered_dept[i].idx)
          /\ OwnersOf(b_test, filtered_dept[k].idx)
                 = {filtered_dept[k].MemberSupervisor}

-----------------------------------------------------------------------------
(* Specification of process_cleaned_excel (lines 78-172) *)

\* Rows of the table read by the whole pipeline: at most MaxPipeRows; rows
\* of the master sheet: at most MaxMasterRows.
MaxPipeRows == 2
MaxMasterRows == 2

\* Row kinds: two Codes of PAG P1, one Code of PAG P2 (no master row has
\* it), a real owner, the placeholder, and an owner that sorts after it.
PipeRowKinds ==
    [member : {M1}, dept : {DEPT}, Code : {1, 2}, PAG : {P1},
     MemberSupervisor : {Al, SENTINEL}]
    \cup [member : {M1}, dept : {DEPT}, Code : {1}, PAG : {P2},
          MemberSupervisor : {Al, SENTINEL}]
    \cup [member : {M1}, dept : {DEPT}, Code : {1}, PAG : {P1},
          MemberSupervisor : {Vi}]

\* Master rows (columns PAG, Member Supervisor, DIRECTOR) as read: the PAG
\* spelt two ways, an owner padded with a blank, two directors for one
\* (PAG, owner), a director cell that holds only a blank.  The master names
\* real owners, never the placeholder.
MasterRowKinds ==
    { [PAG |-> P1, MemberSupervisor |-> Al, DIRECTOR |-> D1],
      [PAG |-> p1Raw, MemberSupervisor |-> Bo \o <<" ">>, DIRECTOR |-> D2],
      [PAG |-> P1, MemberSupervisor |-> Al, DIRECTOR |-> D2],
      [PAG |-> P1, MemberSupervisor |-> Vi, DIRECTOR |-> <<" ">>] }

Init ==
    /\ pc = "read"
    /\ \E raw \in SeqsUpTo(PipeRowKinds, MaxPipeRows) : df = WithIdx(raw)
    /\ master \in SeqsUpTo(MasterRowKinds, MaxMasterRows)
    /\ filtered_dept = <<>>
    /\ b_test = <<>>
    /\ df_leaders_final = <<>>
    /\ df_leaders_monthly = <<>>
    /\ df_edited = None /\ table = None /\ result = Failed /\ previous = Failed
    /\ AppIdle

\* Lines 123-148.
DoMasterLookup ==
    /\ pc = "voted"
    /\ df_leaders_final' = MasterLookup(b_test, df_leaders(master))
    /\ pc' = "resolved"
    /\ UNCHANGED <<df, master, filtered_dept, b_test, df_leaders_monthly>>
    /\ UNCHANGED deriveVars
    /\ UNCHANGED appVars

\* Lines 150-172 and the return: clean_and_process (line 419) shows the
\* roster in the Dataframe component and keeps df_leaders_final as
\* leaders_final_data.
DoRoster ==
    /\ pc = "resolved"
    /\ df_leaders_monthly' = df_leaders_monthly_of(df_leaders_final, df_leaders(master))
    /\ df_edited' = Frame(RosterColumns, df_leaders_monthly')
    /\ table' = Frame(ResolvedColumns, df_leaders_final)
    /\ pc' = "roster"
    /\ UNCHANGED <<df, master, filtered_dept, b_test, df_leaders_final>>
    /\ UNCHANGED <<result, previous>>
    /\ UNCHANGED appVars

Next == DoFilterDept \/ DoMajorityVote \/ DoMasterLookup \/ DoRoster

Spec == Init /\ [][Next]_vars

-----------------------------------------------------------------------------
(* Properties of the master lookup *)

\* C4: the master lookup leaves the owner of every row that does not carry
\* the placeholder after the majority vote as it was, whatever the master
\* holds; only rows still carrying the placeholder change owner.
C4_LookupKeepsResolvedOwners ==
    pc \in {"resolved", "roster"} =>
        \A j \in 1..Len(b_test) :
            b_test[j].MemberSupervisor # SENTINEL =>
                OwnersOf(df_leaders_final, b_test[j].idx)
                    = {b_test[j].MemberSupervisor}

\* A (PAG, Code) group where the lookup acted (a placeholder row took an
\* owner from the master) and that holds a row of another owner, kept.
C4_Witness ==
    /\ pc = "resolved"
    /\ \E j, k \in 1..Len(b_test) :
          /\ b_test[j].PAG = b_test[k].PAG /\ b_test[j].Code = b_test[k].Code
          /\ b_test[j].MemberSupervisor = SENTINEL
          /\ b_test[k].MemberSupervisor \notin {SENTINEL, NaN}
          /\ OwnersOf(df_leaders_final, b_test[j].idx) \cap {SENTINEL, NaN} = {}
          /\ b_test[k].MemberSupervisor \notin OwnersOf(df_leaders_final, b_test[j].idx)
          /\ OwnersOf(df_leaders_final, b_test[k].idx) = {b_test[k].MemberSupervisor}

\* The positions of the master sheet whose PAG, trimmed and upper-cased, is pag.
MasterRowsOf(pag) == {i \in 1..Len(master) : NormPAG(master[i].PAG) = pag}

\* The owner the master gives pag: that of its first row for pag, trimmed;
\* missing when it has no row for pag.
FirstMasterOwner(pag) ==
    IF MasterRowsOf(pag) = {} THEN NaN
    ELSE LET first == CHOOSE i \in MasterRowsOf(pag) : \A n \in MasterRowsOf(pag) : i <= n
         IN  Strip(master[first].MemberSupervisor)

-----------------------------------------------------------------------------
(* Specification of the director derivation: the pipeline, a human edit of
   the roster shown in the Dataframe component, process_master_data_update,
   and a second application to what the first returned *)

\* The values a human types into a DIRECTOR cell: a new name, or nothing.
EditDirectors == {D3, <<>>}

RemoveAt(s, i) == SubSeq(s, 1, i - 1) \o SubSeq(s, i + 1, Len(s))

\* The edit of the interactive Dataframe (lines 368-373) between "Clean and
\* Process" and "Generate Master Files": a row removed, or a DIRECTOR typed.
HumanEdit ==
    /\ pc = "roster"
    /\ \E i \in 1..Len(df_edited.rows) :
          \/ df_edited' = [df_edited EXCEPT !.rows = RemoveAt(@, i)]
          \/ \E d \in EditDirectors :
                df_edited' = [df_edited EXCEPT !.rows[i].DIRECTOR = d]
    /\ pc' = "edited"
    /\ UNCHANGED <<df, master, filtered_dept, b_test, df_leaders_final,
                   df_leaders_monthly, table, result, previous>>
    /\ UNCHANGED appVars

\* Lines 433-437: process_master_data_update on the Dataframe's value and
\* leaders_final_data.
DoMasterDataUpdate ==
    /\ pc \in {"roster", "edited"}
    /\ result' = process_master_data_update(df_edited, table)
    /\ pc' = "derived"
    /\ UNCHANGED <<df, master, filtered_dept, b_test, df_leaders_final,
                   df_leaders_monthly, df_edited, table, previous>>
    /\ UNCHANGED appVars

\* process_master_data_update applied to its own output: the roster it
\* returned as the edited roster, the director map it returned as the table
\* to resolve, or both.
DoReapply ==
    /\ pc = "derived"
    /\ result # Failed
    /\ \E feedRoster, feedMap \in BOOLEAN :
          /\ feedRoster \/ feedMap
          /\ df_edited' = IF feedRoster THEN result.master_data ELSE df_edited
          /\ table' = IF feedMap THEN result.df_director_map ELSE table
    /\ previous' = result
    /\ result' = process_master_data_update(df_edited', table')
    /\ pc' = "rederived"
    /\ UNCHANGED <<df, master, filtered_dept, b_test, df_leaders_final,
                   df_leaders_monthly>>
    /\ UNCHANGED appVars

NextDerive == Next \/ HumanEdit \/ DoMasterDataUpdate \/ DoReapply

SpecDerive == Init /\ [][NextDerive]_vars

\* The directors a roster or master (rows with PAG, MemberSupervisor,
\* DIRECTOR) gives the key of row r; a blank cell is a missing director.
DirectorsFor(rows, r) ==
    {RoundTripCell(rows[i].DIRECTOR) :
        i \in {n \in 1..Len(rows) : /\ rows[n].PAG = r.PAG
                                    /\ rows[n].MemberSupervisor = r.MemberSupervisor}}

\* C6: in the director map, each row's director is the edited roster's for
\* the row's (PAG, Member Supervisor) when the edited roster has that key;
\* otherwise the master's for that key when the master has it; otherwise
\* missing.
C6_DirectorPriority ==
    (pc = "derived" /\ result # Failed) =>
        \A n \in 1..Len(result.df_director_map.rows) :
            LET r  == result.df_director_map.rows[n]
                ed == DirectorsFor(df_edited.rows, r)
                ms == DirectorsFor(df_leaders(master), r)
            IN  r.DIRECTOR \in (IF ed # {} THEN ed ELSE IF ms # {} THEN ms ELSE {NaN})

RowSet(frame) == {Cells(frame.rows[i]) : i \in 1..Len(frame.rows)}

\* C7: process_master_data_update applied to its own output succeeds and
\* returns the same rows (roster and director map) as the first application,
\* up to row order.
C7_DerivationIdempotent ==
    pc = "rederived" =>
        /\ result # Failed
        /\ RowSet(result.df_director_map) = RowSet(previous.df_director_map)
        /\ RowSet(result.master_data) = RowSet(previous.master_data)

-----------------------------------------------------------------------------
(* Specification of two browser sessions calling export_edited_master and
   process_master_data_update: both write Master_Data_Leaders_Monthly.xlsx,
   Master_Data_Leaders.xlsx and LnB_Mapped_Month.xlsx by fixed name in
   tempfile.gettempdir() (lines 179, 194, 213, 214) *)

Sessions == {1, 2}

\* Calls one session makes: at most MaxCalls.
MaxCalls == 2

\* Each session's own inputs: the roster in its Dataframe component and its
\* leaders_final_data.
ConcRosters ==
    {Frame(RosterColumns, <<>>)} \cup
    {Frame(RosterColumns, <<[MemberSupervisor |-> Al, PAG |-> P1, DIRECTOR |-> d]>>) :
        d \in {D1, D2}}

ConcTables ==
    {Frame(ResolvedColumns,
           <<[idx |-> 1, member |-> M1, dept |-> DEPT, Code |-> c, PAG |-> P1,
              MemberSupervisor |-> Al]>>) : c \in {1, 2}}

\* No call has returned yet.
Pending == [pending |-> TRUE]

InitConc ==
    /\ pc = "idle" /\ df = <<>> /\ master = <<>> /\ filtered_dept = <<>>
    /\ b_test = <<>> /\ df_leaders_final = <<>> /\ df_leaders_monthly = <<>>
    /\ df_edited = None /\ table = None /\ result = Failed /\ previous = Failed
    /\ gui = None /\ hist = None /\ CleanIdle
    /\ files = [monthly |-> None, master_data |-> None, lnb_mapped |-> None]
    /\ sess \in [Sessions -> [at : {"idle"}, calls : {0}, edited : ConcRosters,
                              final : ConcTables, mapping : {<<>>}, ret : {Pending}]]

ConcFrame == UNCHANGED <<pipeVars, deriveVars, gui, hist, cleanVars>>

\* export_edited_master (lines 175-182), one write.
ExportEditedMaster(s) ==
    /\ sess[s].at = "idle" /\ sess[s].calls < MaxCalls
    /\ IF NothingEdited(sess[s].edited)
       THEN /\ files' = files
            /\ sess' = [sess EXCEPT ![s].calls = @ + 1,
                                    ![s].ret = [op |-> "export", value |-> None]]
       ELSE /\ files' = [files EXCEPT !.monthly = sess[s].edited]
            /\ sess' = [sess EXCEPT ![s].calls = @ + 1,
                                    ![s].ret = [op |-> "export",
                                                value |-> files'.monthly]]
    /\ ConcFrame

\* process_master_data_update, lines 189-195: the guard and the write of the
\* edited table.  One call of a listener runs at a time (Gradio's queue);
\* calls of different listeners overlap.
UpdateWrite(s) ==
    /\ sess[s].at = "idle" /\ sess[s].calls < MaxCalls
    /\ \A o \in Sessions : sess[o].at = "idle"
    /\ IF NothingEdited(sess[s].edited)
       THEN /\ files' = files
            /\ sess' = [sess EXCEPT ![s].calls = @ + 1,
                                    ![s].ret = [op |-> "update", value |-> Failed]]
       ELSE /\ files' = [files EXCEPT !.monthly = sess[s].edited]
            /\ sess' = [sess EXCEPT ![s].calls = @ + 1, ![s].at = "198"]
    /\ ConcFrame

\* Line 198: the file read back.
UpdateRead(s) ==
    /\ sess[s].at = "198"
    /\ sess' = [sess EXCEPT ![s].mapping = RoundTrip(files.monthly.rows),
                            ![s].at = "199"]
    /\ UNCHANGED files
    /\ ConcFrame

\* Lines 199-219: the merge, the two output files, the return.
UpdateReturn(s) ==
    /\ sess[s].at = "199"
    /\ LET r == DeriveFrom(sess[s].mapping, sess[s].final)
       IN  /\ files' = IF r = Failed THEN files
                       ELSE [files EXCEPT !.master_data = r.master_data,
                                          !.lnb_mapped = r.lnb_mapped]
           /\ sess' = [sess EXCEPT ![s].at = "idle",
                                   ![s].ret = [op |-> "update", value |-> r]]
    /\ ConcFrame

NextConc ==
    \E s \in Sessions :
        ExportEditedMaster(s) \/ UpdateWrite(s) \/ UpdateRead(s) \/ UpdateReturn(s)

SpecConc == InitConc /\ [][NextConc]_vars

\* What the call that session s last finished returns when it runs alone on
\* the session's own inputs.
AloneReturn(s) ==
    IF sess[s].ret.op = "update"
    THEN process_master_data_update(sess[s].edited, sess[s].final)
    ELSE IF NothingEdited(sess[s].edited) THEN None ELSE sess[s].edited

\* C8: whatever the interleaving of the two sessions' calls, each call
\* returns what it returns when run alone on its own inputs.
C8_CallsIndependent ==
    \A s \in Sessions :
        sess[s].ret # Pending => sess[s].ret.value = AloneReturn(s)

-----------------------------------------------------------------------------
(* clean_excel, lines 10-68 *)

\* A workbook as pd.read_excel(..., sheet_name=None, header=None) returns
\* it: the sheets in declaration order, each a grid (rows of equally many
\* cells).  A cell is NaN or a text; a text made of digits only stands for
\* a number cell.
Digits == {"0","1","2","3","4","5","6","7","8","9"}

IsDigits(s) == s # <<>> /\ \A i \in 1..Len(s) : s[i] \in Digits

RECURSIVE Num(_)
Num(s) ==
    IF s = <<>> THEN 0
    ELSE Num(SubSeq(s, 1, Len(s) - 1)) * 10 + (Ord(s[Len(s)]) - Ord("0"))

\* The number a cell holds, or -1 when it holds none.
NumOr(v) == IF IsDigits(v) THEN Num(v) ELSE 0 - 1

Min(S) == CHOOSE x \in S : \A y \in S : x <= y

\* The elements of r at the positions in keep, in order.
Pick(r, keep) ==
    [k \in 1..Cardinality(keep) |->
        r[CHOOSE j \in keep : Cardinality({y \in keep : y < j}) = k - 1]]

\* Line 33: pd.notna(v) and str(v).strip() != "".
NonEmpty(v) == v # NaN /\ Strip(v) # <<>>

non_empty_indices(row) == {j \in 1..Len(row) : NonEmpty(row[j])}

\* Line 34: a header row has more than this many non-empty cells.
HEADER_MIN == 3

\* target_sheet with the last of the sheets with the most rows.
target_sheet_last(sheets) ==
    CHOOSE i \in 1..Len(sheets) :
        /\ \A j \in 1..Len(sheets) : Len(sheets[j]) <= Len(sheets[i])
        /\ \A j \in (i + 1)..Len(sheets) : Len(sheets[j]) < Len(sheets[i])

\* Line 21: max() keeps the first of the sheets with the most rows.
target_sheet(sheets) ==
    CHOOSE i \in 1..Len(sheets) :
        /\ \A j \in 1..Len(sheets) : Len(sheets[j]) <= Len(sheets[i])
        /\ \A j \in 1..(i - 1) : Len(sheets[j]) < Len(sheets[i])

\* header_row_idx without the break of line 37: the last row that
\* qualifies.
header_row_idx_last(target) ==
    LET S == {i \in 1..Len(target) :
                 Cardinality(non_empty_indices(target[i])) > HEADER_MIN}
    IN  IF S = {} THEN 0 ELSE CHOOSE i \in S : \A k \in S : k <= i

\* Lines 28-37: the position of the header row (rows counted from 1); 0
\* when no row qualifies (header_row_idx is None).
header_row_idx(target) ==
    LET S == {i \in 1..Len(target) :
                 Cardinality(non_empty_indices(target[i])) > HEADER_MIN}
    IN  IF S = {} THEN 0 ELSE Min(S)

\* Lines 43-56: rows from the header row on, columns from the header's
\* first non-empty cell on, the first row as column names; then rows whose
\* cells are all NaN go, then columns whose remaining cells are all NaN.
cleaned_df(target, h) ==
    LET fc   == Min(non_empty_indices(target[h]))
        cols == SubSeq(target[h], fc, Len(target[h]))
        data == [i \in 1..(Len(target) - h) |->
                    SubSeq(target[h + i], fc, Len(target[h + i]))]
        rows == Filter(data, LAMBDA r : \E j \in 1..Len(r) : r[j] # NaN)
        keep == {j \in 1..Len(cols) : \E i \in 1..Len(rows) : rows[i][j] # NaN}
    IN  [columns |-> Pick(cols, keep),
         rows |-> [i \in 1..Len(rows) |-> Pick(rows[i], keep)]]

\* The three values clean_excel returns: the cleaned table (the content of
\* the temporary file whose path it returns), the message, and the third
\* value, which every return statement sets to None.
CleanReturn(tbl, msg) == [path |-> tbl, msg |-> msg, error |-> None]

\* An unreadable file makes read_excel raise, a workbook without sheets
\* makes max() raise: line 68 returns for both.
clean_excel(file) ==
    IF ~file.readable \/ file.sheets = <<>>
    THEN CleanReturn(None, "Error: exception")
    ELSE LET target == file.sheets[target_sheet(file.sheets)]
             h      == header_row_idx(target)
         IN  IF Len(target) = 0 \/ Len(target[1]) = 0
             THEN CleanReturn(None, "Error: No data found in the largest sheet.")
             ELSE IF h = 0
             THEN CleanReturn(None, "Error: Could not find a row with more than 3 filled cells.")
             ELSE CleanReturn(cleaned_df(target, h), "Excel cleaned successfully.")

-----------------------------------------------------------------------------
(* process_cleaned_excel, lines 71-172, as one function *)

COL_MEMBER == <<"M","e","m","b","e","r"," ","N","a","m","e"," ","&"," ","I","D">>
COL_DEPT == <<"L","o","a","n","i","n","g"," ","D","e","p","a","r","t","m","e","n","t"," ","I","D">>
COL_SUPERVISOR == <<"M","e","m","b","e","r"," ","S","u","p","e","r","v","i","s","o","r">>
COL_PAG == <<"P","A","G">>
COL_CODE == <<"C","o","d","e">>
PAG_MAPPING == <<"P","A","G"," ","-"," ","P","C","B"," ","C","o","d","e"," ","m","a","p","p","i","n","g">>
PAG_AS_PER == <<"P","A","G"," ","a","s"," ","p","e","r"," ","m","a","p","p","i","n","g"," ","f","i","l","e">>
PCB_CODE == <<"P","C","B"," ","C","o","d","e">>

\* str.replace: every non-overlapping occurrence, left to right.
RECURSIVE Replace(_, _, _)
Replace(s, old, new) ==
    IF Len(s) < Len(old) THEN s
    ELSE IF SubSeq(s, 1, Len(old)) = old
    THEN new \o Replace(SubSeq(s, Len(old) + 1, Len(s)), old, new)
    ELSE <<Head(s)>> \o Replace(Tail(s), old, new)

\* old in s
Contains(s, old) ==
    \E i \in 1..(Len(s) - Len(old) + 1) : SubSeq(s, i, i + Len(old) - 1) = old

\* Lines 85-86.
RenameColumn(col) ==
    LET a == Replace(Replace(col, PAG_MAPPING, COL_PAG), PAG_AS_PER, COL_PAG)
    IN  IF Contains(a, PCB_CODE) THEN Replace(a, PCB_CODE, COL_CODE) ELSE a

\* The column names read_excel(header=0) gives the header cells written by
\* to_excel: a missing name becomes 'Unnamed: <position>', a repeated name
\* gets '.<n>' appended, a number stays a number.
ReadColumn(cols, j) ==
    LET earlier == Cardinality({k \in 1..(j - 1) : cols[k] = cols[j]})
    IN  IF cols[j] = NaN
        THEN <<"U","n","n","a","m","e","d",":"," ">> \o <<Alphabet[Ord("0") + j - 1]>>
        ELSE IF earlier = 0 THEN cols[j]
        ELSE cols[j] \o <<".", Alphabet[Ord("0") + earlier]>>

\* Line 78 (and line 241): the cleaned table read back from its file.
read_cleaned(t) ==
    [columns |-> [j \in 1..Len(t.columns) |-> ReadColumn(t.columns, j)],
     rows |-> [i \in 1..Len(t.rows) |->
                  [j \in 1..Len(t.rows[i]) |-> RoundTripCell(t.rows[i][j])]]]

ColumnsNamed(cols, name) == {j \in 1..Len(cols) : cols[j] = name}

\* pd.DataFrame()
EmptyFrame == Frame({}, <<>>)

\* Lines 81-90 raise when a column name is a number (line 85 calls
\* replace on it), when 'Loaning Department ID' is missing (line 81), when
\* the renamed columns do not hold exactly one 'PAG' (line 87), one 'Code'
\* and one 'Member Supervisor' (line 90).
ColumnsUsable(d) ==
    LET renamed == [j \in 1..Len(d.columns) |-> RenameColumn(d.columns[j])]
    IN  /\ \A j \in 1..Len(d.columns) : ~IsDigits(d.columns[j])
        /\ ColumnsNamed(d.columns, COL_DEPT) # {}
        /\ Cardinality(ColumnsNamed(renamed, COL_PAG)) = 1
        /\ Cardinality(ColumnsNamed(renamed, COL_CODE)) = 1
        /\ Cardinality(ColumnsNamed(renamed, COL_SUPERVISOR)) = 1

\* The rows of the table read at line 78 under the names of lines 85-86.
\* The Code cells of the tables considered hold numbers.
LnBRows(d) ==
    LET renamed == [j \in 1..Len(d.columns) |-> RenameColumn(d.columns[j])]
        col(name) == Min(ColumnsNamed(renamed, name))
        mem == ColumnsNamed(renamed, COL_MEMBER)
    IN  [i \in 1..Len(d.rows) |->
            [idx |-> i,
             member |-> IF mem = {} THEN NaN ELSE d.rows[i][Min(mem)],
             dept |-> NumOr(d.rows[i][col(COL_DEPT)]),
             Code |-> NumOr(d.rows[i][col(COL_CODE)]),
             PAG |-> d.rows[i][col(COL_PAG)],
             MemberSupervisor |-> d.rows[i][col(COL_SUPERVISOR)]]]

LnBColumns(d) ==
    IF \E j \in 1..Len(d.columns) : RenameColumn(d.columns[j]) = COL_MEMBER
    THEN ResolvedColumns ELSE ResolvedColumns \ {"Member Name & ID"}

\* master_file is the master workbook's Sheet1: its column names and its
\* rows.  Lines 125, 133 and 166 raise when PAG, Member Supervisor or
\* DIRECTOR is missing.  The way a call of process_cleaned_excel ends: at
\* which return, or by raising (the function has no try).
process_cleaned_excel(file_path, master_file) ==
    IF file_path = None THEN "return 73"
    ELSE IF master_file = None THEN "return 76"
    ELSE IF \/ ~ColumnsUsable(read_cleaned(file_path))
            \/ ~(RosterColumns \subseteq master_file.columns)
    THEN "raise"
    ELSE "return 172"

\* An exception: its class and the column names its message holds.
Exception(class, names) == [error |-> class, names |-> names]

\* The exception a call that raises ends with, d being the table read at
\* line 78: KeyError at line 81, AttributeError at line 85 (a column name
\* that is a number has no replace), KeyError or, with two 'PAG' columns
\* (a DataFrame has no str), AttributeError at line 87, KeyError or, with
\* two 'Code' columns (sort_values: label not unique), ValueError at line
\* 90, then the KeyError of line 125, 133 or 166 for the master sheet.
raised(d, master_file) ==
    LET renamed == [j \in 1..Len(d.columns) |-> RenameColumn(d.columns[j])]
        absent  == {c \in {COL_SUPERVISOR, COL_CODE} : ColumnsNamed(renamed, c) = {}}
    IN  IF ColumnsNamed(d.columns, COL_DEPT) = {}
        THEN Exception("KeyError", {COL_DEPT})
        ELSE IF \E j \in 1..Len(d.columns) : IsDigits(d.columns[j])
        THEN Exception("AttributeError", {})
        ELSE IF ColumnsNamed(renamed, COL_PAG) = {}
        THEN Exception("KeyError", {COL_PAG})
        ELSE IF Cardinality(ColumnsNamed(renamed, COL_PAG)) > 1
        THEN Exception("AttributeError", {})
        ELSE IF absent # {} THEN Exception("KeyError", absent)
        ELSE IF Cardinality(ColumnsNamed(renamed, COL_CODE)) > 1
        THEN Exception("ValueError", {COL_CODE})
        ELSE IF "PAG" \notin master_file.columns
        THEN Exception("KeyError", {COL_PAG})
        ELSE IF "Member Supervisor" \notin master_file.columns
        THEN Exception("KeyError", {COL_SUPERVISOR \o <<"_", "y">>})
        ELSE Exception("KeyError", {<<"D","I","R","E","C","T","O","R">>})

\* Lines 78-170 of a call that reaches line 172, on the cleaned table t
\* and the master sheet m: the frames it builds.
RunPipeline(t, m) ==
    /\ df' = LnBRows(read_cleaned(t))
    /\ master' = m.rows
    /\ filtered_dept' = FilterDept(df')
    /\ b_test' = MajorityVote(filtered_dept')
    /\ df_leaders_final' = MasterLookup(b_test', df_leaders(master'))
    /\ df_leaders_monthly' =
           df_leaders_monthly_of(df_leaders_final', df_leaders(master'))

-----------------------------------------------------------------------------
(* process_accrual_mapping, lines 224-288 *)

COL_TRX_DEPT == <<"T","r","x"," ","F","i","n"," ","D","e","p","t">>
COL_TRX_OU == <<"T","r","x"," ","O","U">>
COL_EXCLUSION == <<"E","x","c","l","u","s","i","o","n">>
COL_ACCOUNT == <<"A","c","c","o","u","n","t"," ","4","2","5","%">>
COL_ACCRUAL_TYPE == <<"A","c","c","r","u","a","l","s"," ","t","y","p","e">>
COL_EMPL == <<"E","m","p","l"," ","I","D">>
COL_PROJECT == <<"P","r","o","j","e","c","t">>

\* Lines 246 and 248.
TRX_OU == 1062
ACCOUNT == 425000

AccrualColumns ==
    {COL_TRX_DEPT, COL_TRX_OU, COL_EXCLUSION, COL_ACCOUNT, COL_ACCRUAL_TYPE,
     COL_EMPL, COL_PROJECT}

\* Line 260: Series.str.split().str[-1]; NaN and a blank text give NaN.
LastToken(s) ==
    IF s = NaN \/ Strip(s) = <<>> THEN NaN
    ELSE LET t  == RStrip(s)
             sp == {i \in 1..Len(t) : t[i] = " "}
         IN  IF sp = {} THEN t
             ELSE SubSeq(t, (CHOOSE i \in sp : \A k \in sp : k <= i) + 1, Len(t))

\* Line 253: astype(str) of the 'Empl ID' column.  A column of whole
\* numbers with a missing cell is a float column: 7 prints as '7.0'.
EmplStr(v, hasNaN) ==
    IF v = NaN THEN <<"n","a","n">>
    ELSE IF hasNaN /\ IsDigits(v) THEN v \o <<".","0">>
    ELSE v

\* Lines 244-253 on the table read at line 241: the rows passing the five
\* filters, with MEMBER ID.  Project cells hold numbers or nothing.
filtered_df_accrual(d) ==
    LET col(name) == Min(ColumnsNamed(d.columns, name))
        hasNaN == \E i \in 1..Len(d.rows) : d.rows[i][col(COL_EMPL)] = NaN
        all == [i \in 1..Len(d.rows) |->
                   [idx |-> i, cells |-> d.rows[i],
                    MEMBER_ID |-> EmplStr(d.rows[i][col(COL_EMPL)], hasNaN),
                    Project |-> NumOr(d.rows[i][col(COL_PROJECT)])]]
    IN  Filter(all, LAMBDA r :
            /\ NumOr(r.cells[col(COL_TRX_DEPT)]) = DEPT
            /\ NumOr(r.cells[col(COL_TRX_OU)]) = TRX_OU
            /\ r.cells[col(COL_EXCLUSION)] = <<"N">>
            /\ NumOr(r.cells[col(COL_ACCOUNT)]) = ACCOUNT
            /\ r.cells[col(COL_ACCRUAL_TYPE)] = <<"S","h","a","r","i","n","g">>)

\* Line 256.
filtered_df_select(fa) ==
    DropDuplicates([i \in 1..Len(fa) |->
                       [MEMBER_ID |-> fa[i].MEMBER_ID, Project |-> fa[i].Project]],
                   LAMBDA r : r)

\* Lines 259-262.
df_leaders_CODE_select(dmap) ==
    DropDuplicates([i \in 1..Len(dmap) |->
                       [MEMBER_ID |-> LastToken(dmap[i].member),
                        Project |-> dmap[i].Code,
                        MemberSupervisor |-> dmap[i].MemberSupervisor,
                        DIRECTOR |-> dmap[i].DIRECTOR]],
                   LAMBDA r : r)

\* Lines 265-272: left merge on (MEMBER ID, Project), first match kept.
df_accural_manager_code2(sel, leaders) ==
    DropDuplicates(
        FlatMap(sel, LAMBDA r :
            LET m == Filter(leaders, LAMBDA l : /\ l.MEMBER_ID = r.MEMBER_ID
                                                /\ l.Project = r.Project)
            IN  IF m = <<>>
                THEN <<[MEMBER_ID |-> r.MEMBER_ID, Project |-> r.Project,
                        MemberSupervisor |-> NaN, DIRECTOR |-> NaN]>>
                ELSE m),
        LAMBDA r : <<r.MEMBER_ID, r.Project>>)

\* Lines 275-279.
df_accural_final(fa, code2) ==
    FlatMap(fa, LAMBDA r :
        LET m == Filter(code2, LAMBDA c : /\ c.MEMBER_ID = r.MEMBER_ID
                                          /\ c.Project = r.Project)
            owners == IF m = <<>>
                      THEN <<[MemberSupervisor |-> NaN, DIRECTOR |-> NaN]>>
                      ELSE m
        IN  [i \in 1..Len(owners) |->
                [idx |-> r.idx, cells |-> r.cells,
                 MemberSupervisor |-> owners[i].MemberSupervisor,
                 DIRECTOR |-> owners[i].DIRECTOR]])

\* A truthy Python value: None is not.
Truthy(v) == v # None

\* What a handler did: the functions it called and the value it returned.
Outcome(c, v) == [called |-> c, value |-> v]

\* Lines 228-288; the value is the content of Accrual_Mapped.xlsx.
\* pd.read_excel(None, ...) raises, and so does a missing column: the
\* except of line 287 returns None (line 288).
process_accrual_mapping(accrual_file, dmap) ==
    IF accrual_file = None THEN Outcome(<<>>, None)
    ELSE IF dmap = None \/ Len(dmap.rows) = 0 THEN Outcome(<<>>, None)
    ELSE LET c == clean_excel(accrual_file)
         IN  IF Truthy(c.error) THEN Outcome(<<"clean_excel">>, None)
             ELSE IF c.path = None
             THEN Outcome(<<"clean_excel", "read_excel">>, None)
             ELSE LET d == read_cleaned(c.path)
                  IN  IF \/ ~(AccrualColumns \subseteq Range(d.columns))
                         \/ ~({"Member Name & ID", "Code", "Member Supervisor",
                               "DIRECTOR"} \subseteq dmap.columns)
                      THEN Outcome(<<"clean_excel", "read_excel">>, None)
                      ELSE LET fa == filtered_df_accrual(d)
                               code2 == df_accural_manager_code2(
                                            filtered_df_select(fa),
                                            df_leaders_CODE_select(dmap.rows))
                           IN  Outcome(<<"clean_excel", "read_excel">>,
                                       [columns |-> d.columns,
                                        rows |-> df_accural_final(fa, code2)])

-----------------------------------------------------------------------------
(* The Gradio application, lines 332-510 *)

\* Lines 406-419: the way a call of clean_and_process ends.  What
\* process_cleaned_excel raises leaves clean_and_process too.
clean_and_process(file, master_file) ==
    IF file = None \/ master_file = None THEN "return 408"
    ELSE IF Truthy(clean_excel(file).error) THEN "return 412"
    ELSE process_cleaned_excel(clean_excel(file).path, master_file)

\* Lines 175-182; the value is the content of the file whose path is
\* returned.
export_edited_master(edited) ==
    IF NothingEdited(edited) THEN None ELSE edited

\* Workbooks the user may upload as the LnB file.  LnBSheet puts a title
\* row, an empty leading column and the header above the data rows.
LnBHeader == <<NaN, COL_MEMBER, COL_DEPT, PCB_CODE, PAG_MAPPING, COL_SUPERVISOR>>
LnBTitle == <<NaN, <<"R","e","p","o","r","t">>, NaN, NaN, NaN, NaN>>
LnBSheet(data) == <<LnBTitle, LnBHeader>> \o data
Book(sheets) == [readable |-> TRUE, sheets |-> sheets]

LnBMajority ==
    Book(<< <<LnBTitle>>,
            LnBSheet(<< <<NaN, M1, <<"2","5","9","0","2">>, <<"1">>, P1, SENTINEL>>,
                        <<NaN, M2, <<"2","5","9","0","2">>, <<"1">>, p1Raw, Al>> >>) >>)
LnBUnknownPAG ==
    Book(<< LnBSheet(<< <<NaN, M1, <<"2","5","9","0","2">>, <<"1">>, P2, Vi>> >>) >>)
LnBNoHeader ==
    Book(<< << <<COL_MEMBER, COL_DEPT, COL_PAG, NaN>>,
               <<M1, <<"2","5","9","0","2">>, <<" ">>, P1>> >> >>)
LnBNoRows == Book(<< <<>> >>)
LnBNoSheets == Book(<<>>)
LnBUnreadable == [readable |-> FALSE, sheets |-> <<>>]
LnBNoDept ==
    Book(<< << <<COL_MEMBER, PCB_CODE, COL_PAG, COL_SUPERVISOR>>,
               <<M1, <<"1">>, P1, Al>> >> >>)

LnBFiles ==
    {LnBMajority, LnBUnknownPAG, LnBNoHeader, LnBNoRows, LnBNoSheets,
     LnBUnreadable, LnBNoDept}

\* Master workbooks: Sheet1 with its three columns, and one that lacks
\* the DIRECTOR column.
MasterBook ==
    Frame(RosterColumns, <<[PAG |-> P1, MemberSupervisor |-> Al, DIRECTOR |-> D1]>>)
MasterNoDirector ==
    Frame({"PAG", "Member Supervisor"},
          <<[PAG |-> P1, MemberSupervisor |-> Al, DIRECTOR |-> NaN]>>)
MasterFiles == {MasterBook, MasterNoDirector}

\* Accrual workbooks: one whose first row passes the five filters and
\* names member 7 and project 1, and one without a header row.
AccrualHeader ==
    <<COL_TRX_DEPT, COL_TRX_OU, COL_EXCLUSION, COL_ACCOUNT, COL_ACCRUAL_TYPE,
      COL_EMPL, COL_PROJECT>>
AccrualBook ==
    Book(<< <<AccrualHeader,
              <<<<"2","5","9","0","2">>, <<"1","0","6","2">>, <<"N">>, <<"4","2","5","0","0","0">>, <<"S","h","a","r","i","n","g">>, <<"7">>, <<"1">> >>,
              <<<<"2","5","9","0","2">>, <<"1","0","6","2">>, <<"Y">>, <<"4","2","5","0","0","0">>, <<"S","h","a","r","i","n","g">>, <<"8">>, <<"1">> >> >> >>)
AccrualNoHeader == Book(<< << <<<<"A","c","c","r","u","a","l","s">>, NaN, NaN, NaN>> >> >>)
AccrualFiles == {AccrualBook, AccrualNoHeader}

\* User actions and clicks of one run of the application: at most
\* MaxGuiSteps.
MaxGuiSteps == 5

\* The components and gr.State values at start (lines 340-403), the files
\* the user has chosen, and the history of the run: the number of steps,
\* whether process_master_data_update has succeeded since the last click
\* of Clean and Process, the last handler, the functions it called,
\* whether a clean_excel it called failed, and whether it returned an
\* accrual output.
InitGui ==
    /\ pc = "gui"
    /\ df = <<>> /\ master = <<>> /\ filtered_dept = <<>> /\ b_test = <<>>
    /\ df_leaders_final = <<>> /\ df_leaders_monthly = <<>>
    /\ df_edited = None /\ table = None /\ result = Failed /\ previous = Failed
    /\ files = None /\ sess = <<>> /\ CleanIdle
    /\ \E f \in LnBFiles \cup {None}, m \in MasterFiles \cup {None},
          a \in AccrualFiles \cup {None} :
          gui = [file_input |-> f, master_file_input |-> m,
                 accrual_file_input |-> a,
                 dataframe_output |-> None, export_file_output |-> None,
                 master_data_output |-> None, lnb_mapped_output |-> None,
                 accrual_output |-> None, full_data |-> None,
                 leaders_final_data |-> None, director_map_data |-> None]
    /\ hist = [steps |-> 0, derived |-> FALSE, handler |-> "none",
               called |-> <<>>, cleanFailed |-> FALSE, produced |-> FALSE]

GuiFrame == UNCHANGED <<pipeVars, deriveVars, files, sess, cleanVars>>

Step(handler, called, cleanFailed, derived, produced) ==
    hist' = [steps |-> hist.steps + 1, derived |-> derived, handler |-> handler,
             called |-> called, cleanFailed |-> cleanFailed, produced |-> produced]

\* The user replaces the LnB file (line 348).
UploadFile ==
    /\ hist.steps < MaxGuiSteps
    /\ \E f \in LnBFiles \cup {None} :
          /\ f # gui.file_input
          /\ gui' = [gui EXCEPT !.file_input = f]
    /\ Step("upload", <<>>, FALSE, hist.derived, FALSE)
    /\ GuiFrame

\* The user types a director into a row of the editable table (line 367).
EditDirector ==
    /\ hist.steps < MaxGuiSteps
    /\ gui.dataframe_output # None
    /\ \E i \in 1..Len(gui.dataframe_output.rows) :
          /\ gui.dataframe_output.rows[i].DIRECTOR # D3
          /\ gui' = [gui EXCEPT !.dataframe_output.rows[i].DIRECTOR = D3]
    /\ Step("edit", <<>>, FALSE, hist.derived, FALSE)
    /\ GuiFrame

\* Lines 421-425: clean_and_process with the process_cleaned_excel it
\* calls.  A call that reaches line 172 leaves the frames of lines 78-170
\* in df, filtered_dept, b_test, df_leaders_final and df_leaders_monthly,
\* shows the roster and keeps df_leaders_final; a call that returns at
\* line 73 or 76 shows pd.DataFrame() and keeps the error text as
\* full_data; a call that raises updates no output.
ClickProcess ==
    /\ hist.steps < MaxGuiSteps
    /\ LET way == clean_and_process(gui.file_input, gui.master_file_input)
       IN  /\ IF way = "return 172"
              THEN /\ RunPipeline(clean_excel(gui.file_input).path,
                                   gui.master_file_input)
                   /\ gui' = [gui EXCEPT
                          !.dataframe_output = Frame(RosterColumns, df_leaders_monthly'),
                          !.full_data = Frame(RosterColumns, df_leaders_monthly'),
                          !.leaders_final_data =
                              Frame(LnBColumns(read_cleaned(clean_excel(gui.file_input).path)),
                                    df_leaders_final'),
                          !.director_map_data = None]
              ELSE /\ UNCHANGED <<df, master, filtered_dept, b_test,
                                  df_leaders_final, df_leaders_monthly>>
                   /\ gui' = CASE way = "raise" -> gui
                               [] way \in {"return 408", "return 412"} ->
                                      [gui EXCEPT !.full_data = None,
                                                  !.leaders_final_data = None,
                                                  !.director_map_data = None]
                               [] way \in {"return 73", "return 76"} ->
                                      [gui EXCEPT !.dataframe_output = EmptyFrame,
                                                  !.full_data = [msg |-> way],
                                                  !.leaders_final_data = None,
                                                  !.director_map_data = None]
           /\ Step("clean_and_process",
                   CASE way = "return 408" -> <<>>
                     [] way = "return 412" -> <<"clean_excel">>
                     [] OTHER -> <<"clean_excel", "process_cleaned_excel">>,
                   /\ way # "return 408"
                   /\ clean_excel(gui.file_input).path = None,
                   FALSE, FALSE)
    /\ UNCHANGED <<pc, deriveVars, files, sess, cleanVars>>

\* Lines 427-431.
ClickExport ==
    /\ hist.steps < MaxGuiSteps
    /\ gui' = [gui EXCEPT !.export_file_output =
                              export_edited_master(gui.dataframe_output)]
    /\ Step("export_edited_master", <<>>, FALSE, hist.derived, FALSE)
    /\ GuiFrame

\* Lines 433-437.
ClickGenerate ==
    /\ hist.steps < MaxGuiSteps
    /\ LET r == process_master_data_update(gui.dataframe_output,
                                           gui.leaders_final_data)
       IN  /\ gui' = [gui EXCEPT !.master_data_output = r.master_data,
                                 !.lnb_mapped_output = r.lnb_mapped,
                                 !.director_map_data = r.df_director_map]
           /\ Step("process_master_data_update", <<>>, FALSE,
                   r.df_director_map # None, FALSE)
    /\ GuiFrame

\* Lines 439-443.
ClickAccrual ==
    /\ hist.steps < MaxGuiSteps
    /\ LET o == process_accrual_mapping(gui.accrual_file_input,
                                        gui.director_map_data)
       IN  /\ gui' = [gui EXCEPT !.accrual_output = o.value]
           /\ Step("process_accrual_mapping", o.called,
                   /\ o.called # <<>>
                   /\ clean_excel(gui.accrual_file_input).path = None,
                   hist.derived, o.value # None)
    /\ GuiFrame

NextGui ==
    \/ UploadFile \/ EditDirector \/ ClickProcess \/ ClickExport
    \/ ClickGenerate \/ ClickAccrual

SpecGui == InitGui /\ [][NextGui]_vars

-----------------------------------------------------------------------------
(* Claims about the application *)

\* C9: over any sequence of Clean-and-Process, Approve, Generate Master
\* Files and Process Accrual Mapping, a director map is held, and an
\* accrual output is produced, only when process_master_data_update has
\* succeeded after the most recent click of Clean and Process.
C9_AccrualNeedsFreshDerivation ==
    /\ gui.director_map_data # None => hist.derived
    /\ hist.produced => hist.derived

\* C10: when the clean_excel a handler calls fails, the handler calls
\* nothing after it, and clean_and_process does not show an empty table in
\* place of the error.
C10_CleanFailureStopsHandler ==
    hist.cleanFailed =>
        /\ hist.called = <<"clean_excel">>
        /\ hist.handler = "clean_and_process" => gui.dataframe_output # EmptyFrame

-----------------------------------------------------------------------------
(* Specification of clean_excel on its own *)

\* Rows of one sheet: at most MaxGridRows.
MaxGridRows == 3

\* A text that strip() empties.
BlankText == <<" ">>

\* Rows of five cells: headers with and without an empty leading column, a
\* row of three filled cells and a blank text, an empty row, data rows that
\* leave a column empty, a row whose only text is blank, a header that
\* repeats a name.
GridRowKinds ==
    { <<NaN, <<"a">>, <<"b">>, <<"c">>, <<"d">> >>,
      << <<"a">>, <<"b">>, <<"c">>, <<"d">>, <<"e">> >>,
      << <<"a">>, <<"b">>, BlankText, <<"c">>, NaN>>,
      <<NaN, NaN, NaN, NaN, NaN>>,
      <<NaN, <<"x">>, NaN, <<"y">>, NaN>>,
      << <<"x">>, <<"y">>, NaN, <<"x">>, <<"y">> >>,
      <<BlankText, NaN, NaN, NaN, NaN>>,
      <<NaN, <<"a">>, <<"a">>, <<"b">>, <<"c">> >> }

\* Sheets that stand beside the sheet under study: one without rows, one
\* of two rows and one of three.
OtherSheets ==
    { <<>>,
      << << <<"p">>, <<"q">>, <<"r">>, <<"s">>, NaN>>,
         << <<"1">>, NaN, NaN, <<"2">>, NaN>> >>,
      << << <<"p">>, <<"q">>, <<"r">>, <<"s">>, NaN>>,
         << <<"1">>, NaN, NaN, <<"2">>, NaN>>,
         << <<"3">>, NaN, NaN, NaN, NaN>> >> }

\* The cleaned table as the sheet 'Data' that line 63 writes, read with
\* header=None: the column names, then the rows.  A table without columns
\* is written as a sheet without cells.
AsSheet(t) ==
    IF Len(t.columns) = 0 THEN <<>>
    ELSE [i \in 1..(Len(t.rows) + 1) |->
             [j \in 1..Len(t.columns) |->
                 RoundTripCell(IF i = 1 THEN t.columns[j] ELSE t.rows[i - 1][j])]]

InitClean ==
    /\ pc = "raw"
    /\ df = <<>> /\ master = <<>> /\ filtered_dept = <<>> /\ b_test = <<>>
    /\ df_leaders_final = <<>> /\ df_leaders_monthly = <<>>
    /\ df_edited = None /\ table = None /\ result = Failed /\ previous = Failed
    /\ files = None /\ sess = <<>> /\ gui = None /\ hist = None
    /\ \E g \in SeqsUpTo(GridRowKinds, MaxGridRows) :
          \/ book = Book(<<g>>)
          \/ \E o \in OtherSheets : book \in {Book(<<g, o>>), Book(<<o, g>>)}
    /\ cleaned = None /\ again = None /\ mapped = None

CleanFrame == UNCHANGED <<df, master, filtered_dept, b_test, df_leaders_final,
                          df_leaders_monthly, deriveVars, files, sess, gui, hist>>

\* clean_excel(file), lines 10-68.
DoClean ==
    /\ pc = "raw"
    /\ cleaned' = clean_excel(book)
    /\ pc' = "cleaned"
    /\ UNCHANGED <<book, again, mapped>>
    /\ CleanFrame

\* clean_excel on the file that the previous call wrote.
DoReclean ==
    /\ pc = "cleaned"
    /\ cleaned.path # None
    /\ again' = clean_excel(Book(<<AsSheet(cleaned.path)>>))
    /\ pc' = "recleaned"
    /\ UNCHANGED <<book, cleaned, mapped>>
    /\ CleanFrame

NextClean == DoClean \/ DoReclean

SpecClean == InitClean /\ [][NextClean]_vars

-----------------------------------------------------------------------------
(* Claims about clean_excel *)

\* The sheet clean_excel works on.
Largest == book.sheets[target_sheet(book.sheets)]

\* A blank cell: null, or empty after trimming.
IsBlank(v) == v = NaN \/ Strip(v) = <<>>

FilledCells(row) == {j \in 1..Len(row) : ~IsBlank(row[j])}

\* Rows with 4 or more non-blank cells.
FullRows(g) == {i \in 1..Len(g) : Cardinality(FilledCells(g[i])) >= 4}

CutLeft(row, fc) == SubSeq(row, fc, Len(row))

\* The rows below row h, cut at column fc, that have a cell that is not null.
DataBelow(g, h, fc) ==
    {CutLeft(g[i], fc) : i \in {k \in (h + 1)..Len(g) :
                                   \E j \in fc..Len(g[k]) : g[k][j] # NaN}}

\* The columns (counted from fc) in which such a row has a cell that is
\* not null.
KeptColumns(g, h, fc) ==
    {j \in 1..(Len(g[h]) - fc + 1) : \E r \in DataBelow(g, h, fc) : r[j] # NaN}

\* C11 as stated: when the sheet has a row with 4 or more non-blank cells,
\* clean_excel succeeds, the rows of the result are rows below the first
\* such row cut at that row's first non-blank cell, and the column names
\* are that row's cells from its first non-blank cell onward.
C11_HeaderIsFirstFullRow ==
    (pc # "raw" /\ book.sheets # <<>> /\ FullRows(Largest) # {}) =>
        LET h  == Min(FullRows(Largest))
            fc == Min(FilledCells(Largest[h]))
        IN  /\ cleaned.path # None
            /\ cleaned.path.columns = CutLeft(Largest[h], fc)
            /\ Range(cleaned.path.rows) \subseteq DataBelow(Largest, h, fc)

\* C11 amended: the same, with the columns in which every remaining data
\* row is null (every column, when no data row remains) left out of the
\* column names and of the rows.
C11_HeaderIsFirstFullRowKept ==
    (pc # "raw" /\ book.sheets # <<>> /\ FullRows(Largest) # {}) =>
        LET h    == Min(FullRows(Largest))
            fc   == Min(FilledCells(Largest[h]))
            keep == KeptColumns(Largest, h, fc)
        IN  /\ cleaned.path # None
            /\ cleaned.path.columns = Pick(CutLeft(Largest[h], fc), keep)
            /\ Range(cleaned.path.rows) =
                   {Pick(r, keep) : r \in DataBelow(Largest, h, fc)}

\* A sheet whose header is not its first row nor its only full row, with
\* an empty leading column and a column that the data rows leave empty.
C11_Witness ==
    /\ pc # "raw" /\ book.sheets # <<>>
    /\ Cardinality(FullRows(Largest)) > 1
    /\ Min(FullRows(Largest)) > 1
    /\ Min(FilledCells(Largest[Min(FullRows(Largest))])) > 1
    /\ cleaned.path # None
    /\ cleaned.path.rows # <<>>
    /\ Len(cleaned.path.columns) < 4

\* C12: clean_excel on the table a successful clean_excel produced (its
\* header row followed by its data rows, as one sheet) succeeds and gives
\* the same table.
C12_NormalizationIdempotent ==
    pc = "recleaned" => again.path # None /\ again.path = cleaned.path

\* C13: a table that clean_excel returns has no data row blank in every
\* column and no column blank in every data row (blank: null or empty after
\* trimming), and each row has as many cells as the header.
C13_CleanTableInvariant ==
    (pc # "raw" /\ cleaned.path # None) =>
        LET t == cleaned.path
        IN  /\ \A i \in 1..Len(t.rows) : Len(t.rows[i]) = Len(t.columns)
            /\ \A i \in 1..Len(t.rows) : FilledCells(t.rows[i]) # {}
            /\ \A j \in 1..Len(t.columns) :
                   \E i \in 1..Len(t.rows) : ~IsBlank(t.rows[i][j])

\* The sheets with the greatest row count.
LargestSheets == {i \in 1..Len(book.sheets) :
                     \A j \in 1..Len(book.sheets) :
                         Len(book.sheets[j]) <= Len(book.sheets[i])}

\* C14: clean_excel works on the sheet with the greatest row count,
\* whatever the order of the sheets, and on the first of them when several
\* have that row count: it returns what it returns for that sheet alone.
C14_LargestSheetFirstOnTie ==
    (pc # "raw" /\ book.sheets # <<>>) =>
        cleaned = clean_excel(Book(<<book.sheets[Min(LargestSheets)]>>))

\* Two sheets with the same row count that clean to different tables.
C14_Witness ==
    /\ pc # "raw"
    /\ Len(book.sheets) = 2
    /\ Len(book.sheets[1]) = Len(book.sheets[2])
    /\ clean_excel(Book(<<book.sheets[1]>>)).path # None
    /\ clean_excel(Book(<<book.sheets[2]>>)).path # None
    /\ clean_excel(Book(<<book.sheets[1]>>)) # clean_excel(Book(<<book.sheets[2]>>))

-----------------------------------------------------------------------------
(* Claims about the roster *)

\* Row i of the table read carries the placeholder, is the only row of its
\* (PAG, Code) among the rows of the department, and the master has no row
\* of its PAG.
LoneUnspecified(i) ==
    /\ df[i].dept = DEPT
    /\ df[i].MemberSupervisor = SENTINEL
    /\ \A k \in 1..Len(df) \ {i} :
           ~(/\ df[k].dept = DEPT
             /\ df[k].Code = df[i].Code
             /\ NormPAG(df[k].PAG) = NormPAG(df[i].PAG))
    /\ MasterRowsOf(NormPAG(df[i].PAG)) = {}

\* C15: such a row ends with a null owner, and its roster entry has a null
\* director and stands before every entry with a non-blank director.
C15_LoneUnspecifiedOnTop ==
    pc = "roster" =>
        \A i \in 1..Len(df) :
            LoneUnspecified(i) =>
                /\ OwnersOf(df_leaders_final, i) = {NaN}
                /\ \E k \in 1..Len(df_leaders_monthly) :
                       /\ df_leaders_monthly[k] =
                              [MemberSupervisor |-> NaN,
                               PAG |-> NormPAG(df[i].PAG), DIRECTOR |-> NaN]
                       /\ \A j \in 1..Len(df_leaders_monthly) :
                              ~SortNull(df_leaders_monthly[j]) => k < j

\* Such a row read after a row that the master gives a director.
C15_Witness ==
    /\ pc = "roster"
    /\ \E i \in 2..Len(df) : LoneUnspecified(i)
    /\ \E j \in 1..Len(df_leaders_monthly) : ~SortNull(df_leaders_monthly[j])

\* C16: in the roster every row whose director is null or the empty
\* string precedes every row whose director is non-blank.
C16_BlankDirectorsFirst ==
    pc = "roster" =>
        \A i, j \in 1..Len(df_leaders_monthly) :
            (SortNull(df_leaders_monthly[i]) /\ ~SortNull(df_leaders_monthly[j]))
                => i < j

\* A roster that the merge leaves with a director above a null one, and
\* that holds a director that is the empty string.
C16_Witness ==
    /\ pc = "roster"
    /\ \E i \in 1..Len(df_leaders_monthly) : df_leaders_monthly[i].DIRECTOR = <<>>
    /\ LET u == df_leaders_monthly_unsorted(df_leaders_final, df_leaders(master))
       IN  \E i, j \in 1..Len(u) : i < j /\ ~SortNull(u[i]) /\ SortNull(u[j])

-----------------------------------------------------------------------------
(* Specification of process_accrual_mapping on its own *)

\* Rows of the accrual sheet: at most MaxAccrualRows; rows of the director
\* map: at most MaxMapRows.
MaxAccrualRows == 2
MaxMapRows == 2

\* An accrual row that passes the five filters, with its 'Empl ID' and
\* 'Project' cells.
AccrualRow(empl, project) ==
    <<<<"2","5","9","0","2">>, <<"1","0","6","2">>, <<"N">>, <<"4","2","5","0","0","0">>, <<"S","h","a","r","i","n","g">>, empl, project>>

\* Accrual rows: members 7 and 8 on project 1, member 7 on project 2, a row
\* without 'Empl ID', and a row that the Exclusion filter rejects.
AccrualRowKinds ==
    { AccrualRow(<<"7">>, <<"1">>), AccrualRow(<<"8">>, <<"1">>),
      AccrualRow(<<"7">>, <<"2">>), AccrualRow(NaN, <<"1">>),
      <<<<"2","5","9","0","2">>, <<"1","0","6","2">>, <<"Y">>, <<"4","2","5","0","0","0">>, <<"S","h","a","r","i","n","g">>, <<"7">>, <<"1">> >> }

\* Rows of the director map: member 7 on Code 1 under two owners, member 8
\* on Code 1, member 7 on Code 2 without director.
MapRowKinds ==
    { [member |-> M1, dept |-> DEPT, Code |-> 1, PAG |-> P1,
       MemberSupervisor |-> Al, DIRECTOR |-> D1],
      [member |-> M1, dept |-> DEPT, Code |-> 1, PAG |-> P1,
       MemberSupervisor |-> Bo, DIRECTOR |-> D2],
      [member |-> M2, dept |-> DEPT, Code |-> 1, PAG |-> P1,
       MemberSupervisor |-> Al, DIRECTOR |-> D1],
      [member |-> M1, dept |-> DEPT, Code |-> 2, PAG |-> P2,
       MemberSupervisor |-> Vi, DIRECTOR |-> NaN] }

InitAccrual ==
    /\ pc = "accrual"
    /\ df = <<>> /\ master = <<>> /\ filtered_dept = <<>> /\ b_test = <<>>
    /\ df_leaders_final = <<>> /\ df_leaders_monthly = <<>>
    /\ df_edited = None /\ table = None /\ previous = Failed
    /\ \E rows \in SeqsUpTo(MapRowKinds, MaxMapRows) :
          result = [master_data |-> None, lnb_mapped |-> None,
                    df_director_map |->
                        Frame(ResolvedColumns \cup {"DIRECTOR"},
                              [i \in 1..Len(rows) |->
                                  [idx |-> i, member |-> rows[i].member,
                                   dept |-> rows[i].dept, Code |-> rows[i].Code,
                                   PAG |-> rows[i].PAG,
                                   MemberSupervisor |-> rows[i].MemberSupervisor,
                                   DIRECTOR |-> rows[i].DIRECTOR]])]
    /\ files = None /\ sess = <<>> /\ gui = None /\ hist = None
    /\ \E rows \in SeqsUpTo(AccrualRowKinds, MaxAccrualRows) :
          book = Book(<< <<AccrualHeader>> \o rows >>)
    /\ cleaned = None /\ again = None /\ mapped = None

\* process_accrual_mapping(accrual_file, df_director_map), lines 224-288.
DoAccrualMapping ==
    /\ pc = "accrual"
    /\ mapped' = process_accrual_mapping(book, result.df_director_map).value
    /\ pc' = "mapped"
    /\ UNCHANGED <<book, cleaned, again>>
    /\ CleanFrame

NextAccrual == DoAccrualMapping

SpecAccrual == InitAccrual /\ [][NextAccrual]_vars

\* The rows of the accrual sheet (below its header).
AccrualData == Tail(book.sheets[1])

\* Whether a row of the accrual sheet passes the five filters.
PassesFilters(r) ==
    /\ r[1] = <<"2","5","9","0","2">> /\ r[2] = <<"1","0","6","2">> /\ r[3] = <<"N">>
    /\ r[4] = <<"4","2","5","0","0","0">> /\ r[5] = <<"S","h","a","r","i","n","g">>

\* The rows of the director map whose member id (the last token of 'Member
\* Name & ID') and Code are those of the accrual row r.
MapMatches(r) ==
    LET dm == result.df_director_map.rows
    IN  {k \in 1..Len(dm) : /\ r[6] # NaN
                            /\ LastToken(dm[k].member) = r[6]
                            /\ dm[k].Code = NumOr(r[7])}

\* C17: the output holds the rows that pass the five filters, each once
\* and in order, each with the owner and director of the first row of the
\* map that matches it, or with both null when no row matches.
C17_AccrualJoin ==
    (pc = "mapped" /\ Len(result.df_director_map.rows) > 0) =>
        LET dm   == result.df_director_map.rows
            pass == Filter(AccrualData, PassesFilters)
        IN  /\ mapped # None
            /\ Len(mapped.rows) = Len(pass)
            /\ \A i \in 1..Len(pass) :
                   /\ mapped.rows[i].cells = pass[i]
                   /\ IF MapMatches(pass[i]) = {}
                      THEN /\ mapped.rows[i].MemberSupervisor = NaN
                           /\ mapped.rows[i].DIRECTOR = NaN
                      ELSE LET k == Min(MapMatches(pass[i]))
                           IN  /\ mapped.rows[i].MemberSupervisor = dm[k].MemberSupervisor
                               /\ mapped.rows[i].DIRECTOR = dm[k].DIRECTOR

\* C18: a header row that repeats a name makes clean_excel fail; every
\* table it returns has pairwise distinct column names.
C18_DistinctColumnNames ==
    (pc \in {"cleaned", "recleaned"} /\ cleaned.path # None) =>
        \A i, j \in 1..Len(cleaned.path.columns) :
            cleaned.path.columns[i] = cleaned.path.columns[j] => i = j

-----------------------------------------------------------------------------
(* Specification of process_cleaned_excel on cleaned tables of any header *)

\* The columns a cleaned table may hold, each with the cell of its one
\* data row: the member, the department, the Code under two names or
\* twice, the PAG under three names or twice, the owner, and a column whose
\* name is a number.
Column(name, cell) == [name |-> name, cell |-> cell]

HeaderChoices ==
    << {<<>>, <<Column(COL_MEMBER, M1)>>},
       {<<>>, <<Column(COL_DEPT, <<"2","5","9","0","2">>)>>},
       {<<>>, <<Column(PCB_CODE, <<"1">>)>>, <<Column(COL_CODE, <<"1">>)>>,
        <<Column(PCB_CODE, <<"1">>), Column(COL_CODE, <<"2">>)>>},
       {<<>>, <<Column(PAG_MAPPING, P1)>>, <<Column(PAG_AS_PER, p1Raw)>>,
        <<Column(COL_PAG, P1)>>,
        <<Column(PAG_MAPPING, P1), Column(PAG_AS_PER, P2)>>},
       {<<>>, <<Column(COL_SUPERVISOR, SENTINEL)>>},
       {<<>>, <<Column(<<"2","0","2","4">>, <<"5">>)>>} >>

InitHeaders ==
    /\ pc = "cleaned"
    /\ df = <<>> /\ master = <<>> /\ filtered_dept = <<>> /\ b_test = <<>>
    /\ df_leaders_final = <<>> /\ df_leaders_monthly = <<>>
    /\ df_edited = None /\ table = None /\ result = Failed /\ previous = Failed
    /\ files = None /\ sess = <<>> /\ gui = None /\ hist = None
    /\ book = None /\ again = None /\ mapped = None
    /\ \E a \in HeaderChoices[1], b \in HeaderChoices[2], c \in HeaderChoices[3],
          d \in HeaderChoices[4], e \in HeaderChoices[5], f \in HeaderChoices[6] :
          LET cols == a \o b \o c \o d \o e \o f
          IN  cleaned = CleanReturn(
                  [columns |-> [j \in 1..Len(cols) |-> cols[j].name],
                   rows |-> IF cols = <<>> THEN <<>>
                            ELSE <<[j \in 1..Len(cols) |-> cols[j].cell]>>],
                  "Excel cleaned successfully.")

\* process_cleaned_excel(cleaned_path, master_file), lines 71-172, with the
\* master workbook MasterBook: hist keeps the way the call ends and the
\* exception of a call that raises.
DoProcessCleaned ==
    /\ pc = "cleaned"
    /\ LET way == process_cleaned_excel(cleaned.path, MasterBook)
       IN  /\ hist' = [way |-> way,
                       exception |-> IF way = "raise"
                                     THEN raised(read_cleaned(cleaned.path), MasterBook)
                                     ELSE None]
           /\ IF way = "return 172"
              THEN RunPipeline(cleaned.path, MasterBook)
              ELSE UNCHANGED <<df, master, filtered_dept, b_test,
                               df_leaders_final, df_leaders_monthly>>
    /\ pc' = "processed"
    /\ UNCHANGED <<deriveVars, files, sess, gui, cleanVars>>

NextHeaders == DoProcessCleaned

SpecHeaders == InitHeaders /\ [][NextHeaders]_vars

\* The required columns that the table read lacks after lines 85-86.
RequiredColumns == {COL_DEPT, COL_PAG, COL_CODE, COL_SUPERVISOR}

AbsentColumns ==
    RequiredColumns \ {RenameColumn(c) : c \in Range(read_cleaned(cleaned.path).columns)}

\* C19: when a required column is absent after the renaming,
\* process_cleaned_excel stops with a failure that names a missing column
\* and builds no resolved table and no roster.
C19_MissingColumnNamed ==
    (pc = "processed" /\ AbsentColumns # {}) =>
        /\ hist.way = "raise"
        /\ hist.exception.names # {}
        /\ hist.exception.names \subseteq AbsentColumns
        /\ df_leaders_final = <<>> /\ df_leaders_monthly = <<>>

-----------------------------------------------------------------------------
(* Claim about the values of the filtered table *)

\* C20: in the table the department filter hands to the later steps,
\* every 'Member Supervisor' value is free of leading and trailing
\* whitespace and every 'PAG' value is trimmed and upper-cased.
C20_KeyColumnsNormalized ==
    pc \in {"filtered", "voted"} =>
        \A i \in 1..Len(filtered_dept) :
            /\ filtered_dept[i].MemberSupervisor = Strip(filtered_dept[i].MemberSupervisor)
            /\ filtered_dept[i].PAG = Upper(Strip(filtered_dept[i].PAG))

-----------------------------------------------------------------------------
(* Claim about the rows of the resolution cascade *)

\* Table t holds exactly one row per row of the department-filtered table:
\* every filtered row has one descendant in t and t has no other row.
OneRowPerFilteredRow(t) ==
    /\ Len(t) = Len(filtered_dept)
    /\ \A i \in 1..Len(filtered_dept) :
          Cardinality({j \in 1..Len(t) : t[j].idx = filtered_dept[i].idx}) = 1

\* C21: the table after the majority vote, the table after the master
\* lookup (df_leaders_final) and the table after the director derivation
\* (df_director_map) each hold exactly one row per row of the
\* department-filtered table: no row duplicated, none dropped.
C21_CascadePreservesRows ==
    /\ pc \in {"voted", "resolved", "roster", "edited", "derived"} =>
          OneRowPerFilteredRow(b_test)
    /\ pc \in {"resolved", "roster", "edited", "derived"} =>
          OneRowPerFilteredRow(df_leaders_final)
    /\ (pc = "derived" /\ result # Failed) =>
          OneRowPerFilteredRow(result.df_director_map.rows)

=============================================================================
